---- MODULE Spec2Model ----
(***************************************************************************)
(* A model of convert.py: the NMF container parser (get_packet_header,     *)
(* get_compression_type, get_data_value, chunks_generator), the stream     *)
(* demultiplexer and encoder hand-off (convert_to_mp3) and the batch loop  *)
(* of the __main__ block.  Containers are sequences of bytes (0..255);     *)
(* struct.unpack is modelled with its length check and its little-endian   *)
(* two's-complement decoding, Python slices with their clamping.           *)
(***************************************************************************)
EXTENDS Integers, Sequences, FiniteSets, TLC

\* ------------------------------------------------------------------ bounds
\* The most packets a generated container is built from.
MaxPackets == 3
\* The most bytes cut from the end of a generated container.
MaxCut == 2
\* The same two bounds for the containers of TruncatedSpec, which cuts a
\* container anywhere in its last header.
TruncPackets == 2
TruncCut == 28
\* The most files of a batch run.
MaxFiles == 2
\* The most full records of a parameter block of ScanSpec.
MaxRecords == 2
\* The most packets of the container TwiceSpec converts twice.
TwicePackets == 3

\* ------------------------------------------------------- Python primitives
Min(a, b) == IF a < b THEN a ELSE b

Max(a, b) == IF a > b THEN a ELSE b

\* d[a:b] for 0 <= a: a Python slice never reads outside the sequence.
Slice(d, a, b) ==
    IF a >= Len(d) \/ b <= a THEN << >> ELSE SubSeq(d, a + 1, Min(b, Len(d)))

\* Python's None, an unbound local name, and an int value.
None == [tag |-> "none", v |-> 0]

Unbound == [tag |-> "unbound", v |-> 0]

PyInt(n) == [tag |-> "int", v |-> n]

\* The outcome of a call that raised struct.error inside function f.
StructError(f) == [tag |-> "error", exc |-> "struct.error", in |-> f]

Ok(x) == [tag |-> "ok", val |-> x]

\* struct.unpack("b", s): exactly one byte, signed.
unpack_b(s) ==
    IF Len(s) # 1 THEN [ok |-> FALSE, v |-> 0]
    ELSE [ok |-> TRUE, v |-> IF s[1] >= 128 THEN s[1] - 256 ELSE s[1]]

\* struct.unpack("h", s): exactly two bytes, little-endian, signed.
unpack_h(s) ==
    IF Len(s) # 2 THEN [ok |-> FALSE, v |-> 0]
    ELSE LET u == s[1] + 256 * s[2]
         IN  [ok |-> TRUE, v |-> IF u >= 32768 THEN u - 65536 ELSE u]

\* struct.unpack("I", s): exactly four bytes, little-endian, unsigned.
\* TLC's integers end at 2^31 - 1: the sizes of the containers modelled
\* here stay below that, so their top byte is below 128.
unpack_I(s) ==
    IF Len(s) # 4 THEN [ok |-> FALSE, v |-> 0]
    ELSE [ok |-> TRUE,
          v |-> s[1] + 256 * s[2] + 65536 * s[3] + 16777216 * s[4]]

\* struct.unpack("i", s): exactly four bytes, little-endian, signed.
unpack_i(s) ==
    IF Len(s) # 4 THEN [ok |-> FALSE, v |-> 0]
    ELSE [ok |-> TRUE,
          v |-> s[1] + 256 * s[2] + 65536 * s[3]
                + 16777216 * (IF s[4] >= 128 THEN s[4] - 256 ELSE s[4])]

\* struct.unpack("d", s): exactly eight bytes; the value of the double is
\* kept as its eight bytes (convert.py never uses start_time or end_time).
unpack_d(s) ==
    IF Len(s) # 8 THEN [ok |-> FALSE, v |-> << >>] ELSE [ok |-> TRUE, v |-> s]

\* A mutant of unpack_s: a buffer shorter than n is accepted as it is.
unpack_s_short(n, s) ==
    IF n < 0 \/ Len(s) > n THEN [ok |-> FALSE, v |-> << >>]
    ELSE [ok |-> TRUE, v |-> s]

\* struct.unpack("<n>s", s): fails for a negative n ("bad char in struct
\* format") and for a buffer whose length is not n.
unpack_s(n, s) ==
    IF n < 0 \/ Len(s) # n THEN [ok |-> FALSE, v |-> << >>]
    ELSE [ok |-> TRUE, v |-> s]

\* ------------------------------------------------------------ convert.py
formats ==
    (0 :> "g729") @@ (1 :> "g726") @@ (2 :> "g726") @@ (3 :> "alaw") @@
    (7 :> "mulaw") @@ (8 :> "g729") @@ (9 :> "g723_1") @@ (10 :> "g723_1") @@
    (19 :> "g722")

\* A mutant of get_packet_header: a short window is padded with zero bytes
\* instead of being refused.
get_packet_header_padded(data) ==
    LET p == data \o [i \in 1..(28 - Len(data)) |-> 0]
    IN  Ok([packet_type     |-> unpack_b(Slice(p, 0, 1)).v,
            packet_subtype  |-> unpack_h(Slice(p, 1, 3)).v,
            stream_id       |-> unpack_b(Slice(p, 3, 4)).v,
            start_time      |-> unpack_d(Slice(p, 4, 12)).v,
            end_time        |-> unpack_d(Slice(p, 12, 20)).v,
            packet_size     |-> unpack_I(Slice(p, 20, 24)).v,
            parameters_size |-> unpack_I(Slice(p, 24, 28)).v])

\* get_packet_header(data): the seven fields at their fixed offsets; any
\* field whose slice is short raises struct.error.
get_packet_header(data) ==
    LET pt  == unpack_b(Slice(data, 0, 1))
        pst == unpack_h(Slice(data, 1, 3))
        sid == unpack_b(Slice(data, 3, 4))
        st  == unpack_d(Slice(data, 4, 12))
        et  == unpack_d(Slice(data, 12, 20))
        ps  == unpack_I(Slice(data, 20, 24))
        prs == unpack_I(Slice(data, 24, 28))
    IN  IF pt.ok /\ pst.ok /\ sid.ok /\ st.ok /\ et.ok /\ ps.ok /\ prs.ok
        THEN Ok([packet_type     |-> pt.v,
                 packet_subtype  |-> pst.v,
                 stream_id       |-> sid.v,
                 start_time      |-> st.v,
                 end_time        |-> et.v,
                 packet_size     |-> ps.v,
                 parameters_size |-> prs.v])
        ELSE StructError("get_packet_header")

\* `data_value == 0` compares the tuple struct.unpack returned with an int:
\* in Python a tuple never equals an int.
TupleEqualsInt(t, n) == FALSE

\* A mutant of get_data_value: the code is looked up in formats as soon as
\* it is decoded, so a code the table lacks fails inside the parser.
get_data_value_checked(data, data_size) ==
    LET first == unpack_s(data_size, Slice(data, 0, data_size))
        b     == unpack_b(first.v)
    IN  IF ~first.ok \/ ~b.ok THEN StructError("get_data_value")
        ELSE IF b.v \in DOMAIN formats THEN Ok(PyInt(b.v))
        ELSE [tag |-> "error", exc |-> "KeyError", in |-> "get_data_value"]

\* get_data_value(data, data_size).
get_data_value(data, data_size) ==
    LET first == unpack_s(data_size, Slice(data, 0, data_size))
    IN  IF ~first.ok THEN StructError("get_data_value")
        ELSE LET reread     == unpack_s(data_size, Slice(data, 8, data_size))
                 fallback   == TupleEqualsInt(<<first.v>>, 0)
                 data_value == IF fallback THEN reread ELSE first
             IN  IF ~data_value.ok THEN StructError("get_data_value")
                 ELSE LET b == unpack_b(data_value.v)
                      IN  IF b.ok THEN Ok(PyInt(b.v))
                          ELSE StructError("get_data_value")

\* A mutant of scan_records: the loop does not return at the first record
\* with type_id = 10, the last such record decides.
RECURSIVE scan_records_last(_, _)
scan_records_last(data, i) ==
    IF i >= Len(data) THEN Ok(None)
    ELSE LET type_id   == unpack_h(Slice(data, i, i + 2))
             data_size == unpack_i(Slice(data, i + 2, i + 6))
             temp      == unpack_s(16, Slice(data, i + 6, i + 22))
             rest      == scan_records_last(data, i + 22)
         IN  IF ~(type_id.ok /\ data_size.ok /\ temp.ok)
             THEN StructError("get_compression_type")
             ELSE IF type_id.v = 10 /\ rest = Ok(None)
             THEN get_data_value(temp.v, data_size.v)
             ELSE rest

\* The body of get_compression_type's loop from record offset i on.
RECURSIVE scan_records(_, _)
scan_records(data, i) ==
    IF i >= Len(data) THEN Ok(None)
    ELSE LET type_id   == unpack_h(Slice(data, i, i + 2))
             data_size == unpack_i(Slice(data, i + 2, i + 6))
             temp      == unpack_s(16, Slice(data, i + 6, i + 22))
         IN  IF ~(type_id.ok /\ data_size.ok /\ temp.ok)
             THEN StructError("get_compression_type")
             ELSE IF type_id.v = 10 THEN get_data_value(temp.v, data_size.v)
             ELSE scan_records(data, i + 22)

\* get_compression_type(data): for i in range(0, len(data), 22).
get_compression_type(data) == scan_records(data, 0)

\* The media predicate of chunks_generator's if statement.
IsMedia(h) ==
    \/ h.packet_type = 4 /\ h.packet_subtype \in {0, 3}
    \/ h.packet_type = 5 /\ h.packet_subtype = 300


\* The highest offset the slice d[a:b] reads from (0 when it reads nothing).
SliceEnd(d, a, b) == IF a >= Len(d) \/ b <= a THEN 0 ELSE Min(b, Len(d))

\* A mutant of IsTerminal: the loop looks for the wrong packet type.
IsTerminal_type6(h) == h.packet_type = 6

\* `break` when the packet just decoded is the terminal one.
IsTerminal(h) == h.packet_type = 7

\* A mutant of Accumulate: the membership test is missing and a chunk of
\* any other stream lands in the caller's buffer.
Accumulate_unfiltered(ac, stream_id, raw_audio_chunk) ==
    LET s == IF stream_id \in DOMAIN ac THEN stream_id ELSE 0
    IN  [ac EXCEPT ![s] = ac[s] \o raw_audio_chunk]

\* convert_to_mp3's loop body: a chunk of a retained stream is appended to
\* that stream's buffer, any other chunk leaves the buffers alone.
Accumulate(ac, stream_id, raw_audio_chunk) ==
    IF stream_id \in DOMAIN ac
    THEN [ac EXCEPT ![stream_id] = ac[stream_id] \o raw_audio_chunk]
    ELSE ac

\* `formats[compression] if compression is not None else formats[0]`, with
\* the exceptions the expression raises.
select_format(c) ==
    IF c.tag = "unbound"
    THEN [tag |-> "error", exc |-> "UnboundLocalError", in |-> "convert_to_mp3"]
    ELSE IF c.tag = "none" THEN Ok(formats[0])
    ELSE IF c.v \in DOMAIN formats THEN Ok(formats[c.v])
    ELSE [tag |-> "error", exc |-> "KeyError", in |-> "convert_to_mp3"]

\* ------------------------------------------------------- input containers
\* The bytes struct.pack would write for the fields convert.py decodes.
U8(n) == (n + 256) % 256

LE16(n) == LET u == (n + 65536) % 65536 IN <<u % 256, u \div 256>>

LE32(n) ==
    LET m == IF n < 0 THEN (n + 2147483647) + 1 ELSE n
    IN  <<m % 256, (m \div 256) % 256, (m \div 65536) % 256,
          (m \div 16777216) + (IF n < 0 THEN 128 ELSE 0)>>

HeaderBytes(t, st, sid, ps, prs) ==
    <<U8(t)>> \o LE16(st) \o <<U8(sid)>> \o [i \in 1..16 |-> 0]
        \o LE32(ps) \o LE32(prs)

RecordBytes(type_id, data_size, b0) ==
    LE16(type_id) \o LE32(data_size) \o <<b0>> \o [i \in 1..15 |-> 200 + i]

\* The packets containers are built from: media packets of streams 0, 1 and
\* 2 with and without a compression record, packets that are not media, the
\* terminal packet, and packets whose header or parameter block is damaged.
PacketKinds ==
    { HeaderBytes(4, 0, 0, 24, 22) \o RecordBytes(10, 1, 3) \o <<65, 66>>,
      HeaderBytes(4, 3, 1, 23, 22) \o RecordBytes(5, 1, 9) \o <<67>>,
      HeaderBytes(5, 300, 1, 45, 44) \o RecordBytes(5, 4, 1)
          \o RecordBytes(10, 1, 7) \o <<68>>,
      HeaderBytes(4, 0, 2, 23, 22) \o RecordBytes(10, 1, 19) \o <<69>>,
      HeaderBytes(4, 0, 0, 2, 0) \o <<70, 71>>,
      HeaderBytes(5, 3, 0, 3, 0) \o <<1, 2, 3>>,
      HeaderBytes(7, 0, 0, 0, 0),
      HeaderBytes(7, 0, 0, 5, 0),
      HeaderBytes(1, 0, 0, 0, 22),
      HeaderBytes(4, 0, 0, 1, 22) \o <<72>>,
      HeaderBytes(4, 0, 1, 4, 3) \o <<0, 0, 0>> \o <<73>>,
      HeaderBytes(4, 0, 0, 23, 22) \o RecordBytes(10, 2, 3) \o <<74>>,
      HeaderBytes(4, 0, 0, 23, 22) \o RecordBytes(10, 1, 251) \o <<75>>,
      HeaderBytes(4, 3, 1, 45, 44) \o RecordBytes(10, 1, 1)
          \o RecordBytes(10, 1, 3) \o <<76>> }

RECURSIVE Concat(_)
Concat(ss) == IF ss = << >> THEN << >> ELSE Head(ss) \o Concat(Tail(ss))

\* Every container made of at most np packets, with at most nc bytes cut
\* from its end.
ContainersOf(np, nc) ==
    { SubSeq(Concat(ks), 1, Len(Concat(ks)) - cut) :
        ks \in UNION { [1..n -> PacketKinds] : n \in 0..np },
        cut \in 0..nc }

\* The records parameter blocks are built from: compression records with
\* a data_size below, inside and above 1..16 and a first payload byte that
\* is zero, a table key, or negative as int8; two records of other types.
ScanRecords ==
    { RecordBytes(10, ds, b0) : ds \in {-1, 0, 1, 2, 16, 17}, b0 \in {0, 3, 251} }
        \cup { RecordBytes(5, 1, 3), RecordBytes(0, 16, 0) }

\* What may follow the full records: nothing, or the first 1, 3 or 21 bytes
\* of a compression record.
ScanTails == { SubSeq(RecordBytes(10, 1, 3), 1, n) : n \in {0, 1, 3, 21} }

\* Every parameter block of at most MaxRecords full records and a tail.
ScanBlocks ==
    { Concat(rs) \o t :
        rs \in UNION { [1..n -> ScanRecords] : n \in 0..MaxRecords },
        t \in ScanTails }

\* The container that holds parameter block b: one media packet of stream 0
\* with b and one payload byte, then the terminal packet.
ScanContainer(b) ==
    HeaderBytes(4, 0, 0, Len(b) + 1, Len(b)) \o b \o <<65>>
        \o HeaderBytes(7, 0, 0, 0, 0)

\* A file of the source folder: a readable container, or an unreadable path.
File(bytes) == [readable |-> TRUE, bytes |-> bytes]

Missing == [readable |-> FALSE, bytes |-> << >>]

\* The files of a batch run: a container that converts, one with a cut
\* terminal header, one whose compression code the table lacks, one with the
\* terminal packet alone, one that is not media throughout, a missing file.
BatchFiles ==
    { File(HeaderBytes(4, 0, 0, 24, 22) \o RecordBytes(10, 1, 3) \o <<65, 66>>
             \o HeaderBytes(7, 0, 0, 0, 0)),
      File(HeaderBytes(4, 3, 1, 23, 22) \o RecordBytes(5, 1, 9) \o <<67>>
             \o SubSeq(HeaderBytes(7, 0, 0, 0, 0), 1, 20)),
      File(HeaderBytes(4, 0, 0, 23, 22) \o RecordBytes(10, 1, 251) \o <<75>>
             \o HeaderBytes(7, 0, 0, 0, 0)),
      File(HeaderBytes(7, 0, 0, 0, 0)),
      File(HeaderBytes(5, 3, 0, 3, 0) \o <<1, 2, 3>>),
      Missing }

\* ------------------------------------------------------------------ state
VARIABLES
    files,                \* the .nmf files os.listdir yields, in order
    fileIdx,              \* how many of them the batch loop has taken
    pc,                   \* where the program is
    data,                 \* chunks_generator: the bytes of the open file
    packet_header_start,  \* chunks_generator: the cursor
    headers,              \* chunks_generator: the header decoded last
    compression,          \* convert_to_mp3: the loop variable
    audio_chunks,         \* convert_to_mp3: the two stream buffers
    stream_id,            \* convert_to_mp3: the encoder loop's variable
    exc,                  \* the exception raised, "none" when there is none
    raisedIn,             \* the function that raised it
    trace,                \* every header decoded in this file, with its offset
    chunks,               \* every chunk yielded in this file, in order
    chunkSrc,             \* for each of them the index in trace of its packet
    readHi,               \* the highest offset of data read so far
    encoded,              \* every ffmpeg encoder process started
    converted             \* the files whose mixed output was written

vars == <<files, fileIdx, pc, data, packet_header_start, headers, compression,
          audio_chunks, stream_id, exc, raisedIn, trace, chunks, chunkSrc,
          readHi, encoded, converted>>

NoHeader ==
    [packet_type |-> 0, packet_subtype |-> 0, stream_id |-> 0,
     start_time |-> << >>, end_time |-> << >>,
     packet_size |-> 0, parameters_size |-> 0]

InitWith(fs) ==
    /\ files = fs
    /\ fileIdx = 0
    /\ pc = "main"
    /\ data = << >>
    /\ packet_header_start = 0
    /\ headers = NoHeader
    /\ compression = Unbound
    /\ audio_chunks = (0 :> << >>) @@ (1 :> << >>)
    /\ stream_id = 0
    /\ exc = "none"
    /\ raisedIn = "none"
    /\ trace = << >>
    /\ chunks = << >>
    /\ chunkSrc = << >>
    /\ readHi = 0
    /\ encoded = << >>
    /\ converted = << >>

\* One file in the source folder.
Init ==
    \E f \in { File(c) : c \in ContainersOf(MaxPackets, MaxCut) } \cup {Missing} :
        InitWith(<<f>>)

\* One file in the source folder, cut anywhere in its last 28 bytes.
TruncatedInit ==
    \E f \in { File(c) : c \in ContainersOf(TruncPackets, TruncCut) }
                 \cup {Missing} :
        InitWith(<<f>>)

\* One file in the source folder: a media packet with any parameter block
\* of ScanBlocks.
ScanInit == \E b \in ScanBlocks : InitWith(<<File(ScanContainer(b))>>)

\* The same container twice in the source folder, under two names.
TwiceInit ==
    \E c \in ContainersOf(TwicePackets, 0) : InitWith(<<File(c), File(c)>>)

\* Up to MaxFiles files in the source folder.
BatchInit ==
    \E fs \in UNION { [1..n -> BatchFiles] : n \in 1..MaxFiles } : InitWith(fs)


\* ---------------------------------------------------------------- actions
\* A mutant of Raise: the exception is recorded but the loop over the
\* chunks just ends, as under a try/except around it.
Raise_swallowed(e, f) ==
    /\ pc' = "done"
    /\ exc' = e
    /\ raisedIn' = f

\* An exception e raised in function f leaves convert_to_mp3 at once.
Raise(e, f) ==
    /\ pc' = "raised"
    /\ exc' = e
    /\ raisedIn' = f

\* A mutant of NextFile: the buffers and the compression outlive the call,
\* as if they were module-level names.
NextFile_stale ==
    /\ pc = "main"
    /\ fileIdx < Len(files)
    /\ fileIdx' = fileIdx + 1
    /\ pc' = "open"
    /\ data' = << >>
    /\ packet_header_start' = 0
    /\ headers' = NoHeader
    /\ stream_id' = 0
    /\ trace' = << >>
    /\ chunks' = << >>
    /\ chunkSrc' = << >>
    /\ readHi' = 0
    /\ UNCHANGED <<files, exc, raisedIn, encoded, converted, compression,
                   audio_chunks>>

\* __main__: the batch loop takes the next file and calls convert_to_mp3,
\* which creates the two empty buffers.
NextFile ==
    /\ pc = "main"
    /\ fileIdx < Len(files)
    /\ fileIdx' = fileIdx + 1
    /\ pc' = "open"
    /\ data' = << >>
    /\ packet_header_start' = 0
    /\ headers' = NoHeader
    /\ compression' = Unbound
    /\ audio_chunks' = (0 :> << >>) @@ (1 :> << >>)
    /\ stream_id' = 0
    /\ trace' = << >>
    /\ chunks' = << >>
    /\ chunkSrc' = << >>
    /\ readHi' = 0
    /\ UNCHANGED <<files, exc, raisedIn, encoded, converted>>

\* __main__: the batch loop has no file left.
Finish ==
    /\ pc = "main"
    /\ fileIdx = Len(files)
    /\ pc' = "finished"
    /\ UNCHANGED <<files, fileIdx, data, packet_header_start, headers,
                   compression, audio_chunks, stream_id, exc, raisedIn, trace,
                   chunks, chunkSrc, readHi, encoded, converted>>

\* chunks_generator: read the whole file; an unreadable path ends the
\* process with sys.exit, which `except Exception` does not catch.
OpenFile ==
    /\ pc = "open"
    /\ IF files[fileIdx].readable
       THEN /\ data' = files[fileIdx].bytes
            /\ pc' = "scan"
            /\ UNCHANGED <<exc, raisedIn>>
       ELSE /\ pc' = "exited"
            /\ exc' = "SystemExit"
            /\ raisedIn' = "chunks_generator"
            /\ UNCHANGED data
    /\ UNCHANGED <<files, fileIdx, packet_header_start, headers, compression,
                   audio_chunks, stream_id, trace, chunks, chunkSrc, readHi,
                   encoded, converted>>

\* A mutant of ReadHeader: the loop ends quietly when no header can be
\* decoded at the cursor.
ReadHeader_break ==
    /\ pc = "scan"
    /\ LET packet_header_end == packet_header_start + 28
           window == Slice(data, packet_header_start, packet_header_end)
           r == get_packet_header(window)
       IN  /\ readHi' = Max(readHi, SliceEnd(data, packet_header_start,
                                             packet_header_end))
           /\ IF r.tag = "ok"
              THEN /\ headers' = r.val
                   /\ trace' = Append(trace, [at |-> packet_header_start,
                                              hdr |-> r.val])
                   /\ pc' = "classify"
              ELSE /\ pc' = "done"
                   /\ UNCHANGED <<headers, trace>>
    /\ UNCHANGED <<files, fileIdx, data, packet_header_start, compression,
                   audio_chunks, stream_id, chunks, chunkSrc, encoded,
                   converted, exc, raisedIn>>

\* chunks_generator: decode the header in the 28-byte window at the cursor.
ReadHeader ==
    /\ pc = "scan"
    /\ LET packet_header_end == packet_header_start + 28
           window == Slice(data, packet_header_start, packet_header_end)
           r == get_packet_header(window)
       IN  /\ readHi' = Max(readHi, SliceEnd(data, packet_header_start,
                                             packet_header_end))
           /\ IF r.tag = "ok"
              THEN /\ headers' = r.val
                   /\ trace' = Append(trace, [at |-> packet_header_start,
                                              hdr |-> r.val])
                   /\ pc' = "classify"
                   /\ UNCHANGED <<exc, raisedIn>>
              ELSE /\ Raise(r.exc, r.in)
                   /\ UNCHANGED <<headers, trace>>
    /\ UNCHANGED <<files, fileIdx, data, packet_header_start, compression,
                   audio_chunks, stream_id, chunks, chunkSrc, encoded,
                   converted>>

\* chunks_generator, the media branch: slice the payload, scan the parameter
\* block and yield the chunk; convert_to_mp3's loop body then takes it.
EmitChunk ==
    /\ pc = "classify"
    /\ IsMedia(headers)
    /\ LET packet_header_end == packet_header_start + 28
           chunk_start  == packet_header_end + headers.parameters_size
           chunk_end    == chunk_start + headers.packet_size
                               - headers.parameters_size
           chunk_length == chunk_end - chunk_start
           raw_audio_chunk ==
               unpack_s(chunk_length, Slice(data, chunk_start, chunk_end))
           params_end   == packet_header_end + headers.parameters_size
           c == get_compression_type(Slice(data, packet_header_end, params_end))
       IN  IF ~raw_audio_chunk.ok
           THEN /\ Raise("struct.error", "chunks_generator")
                /\ readHi' = Max(readHi, SliceEnd(data, chunk_start, chunk_end))
                /\ UNCHANGED <<compression, audio_chunks, chunks, chunkSrc>>
           ELSE /\ readHi' = Max(Max(readHi,
                                     SliceEnd(data, chunk_start, chunk_end)),
                                 SliceEnd(data, packet_header_end, params_end))
                /\ IF c.tag = "ok"
                   THEN /\ chunks' = Append(chunks,
                               [compression |-> c.val,
                                stream_id   |-> headers.stream_id,
                                bytes       |-> raw_audio_chunk.v])
                        /\ chunkSrc' = Append(chunkSrc, Len(trace))
                        /\ compression' = c.val
                        /\ audio_chunks' = Accumulate(audio_chunks,
                               headers.stream_id, raw_audio_chunk.v)
                        /\ pc' = "advance"
                        /\ UNCHANGED <<exc, raisedIn>>
                   ELSE /\ Raise(c.exc, c.in)
                        /\ UNCHANGED <<compression, audio_chunks, chunks,
                                       chunkSrc>>
    /\ UNCHANGED <<files, fileIdx, data, packet_header_start, headers,
                   stream_id, trace, encoded, converted>>

\* chunks_generator: a packet that is not media yields nothing.
SkipPacket ==
    /\ pc = "classify"
    /\ ~IsMedia(headers)
    /\ pc' = "advance"
    /\ UNCHANGED <<files, fileIdx, data, packet_header_start, headers,
                   compression, audio_chunks, stream_id, exc, raisedIn, trace,
                   chunks, chunkSrc, readHi, encoded, converted>>

\* A mutant of Advance: the break is taken after every packet, so the
\* encoder loop starts while packets remain.
Advance_break ==
    /\ pc = "advance"
    /\ packet_header_start' = packet_header_start + headers.packet_size + 28
    /\ pc' = "done"
    /\ UNCHANGED <<files, fileIdx, data, headers, compression, audio_chunks,
                   stream_id, exc, raisedIn, trace, chunks, chunkSrc, readHi,
                   encoded, converted>>

\* A mutant of Advance: the 28 bytes of the header are left out of the step,
\* so a packet of size 0 is decoded again and again.
Advance_stuck ==
    /\ pc = "advance"
    /\ packet_header_start' = packet_header_start + headers.packet_size
    /\ pc' = IF IsTerminal(headers) THEN "done" ELSE "scan"
    /\ UNCHANGED <<files, fileIdx, data, headers, compression, audio_chunks,
                   stream_id, exc, raisedIn, trace, chunks, chunkSrc, readHi,
                   encoded, converted>>

\* chunks_generator: move the cursor past the packet; the terminal packet
\* ends the loop.
Advance ==
    /\ pc = "advance"
    /\ packet_header_start' = packet_header_start + headers.packet_size + 28
    /\ pc' = IF IsTerminal(headers) THEN "done" ELSE "scan"
    /\ UNCHANGED <<files, fileIdx, data, headers, compression, audio_chunks,
                   stream_id, exc, raisedIn, trace, chunks, chunkSrc, readHi,
                   encoded, converted>>

\* convert_to_mp3: the generator is exhausted; the output paths are built
\* and the encoder loop starts with stream 0.
PrepareOutput ==
    /\ pc = "done"
    /\ pc' = "encode"
    /\ stream_id' = 0
    /\ UNCHANGED <<files, fileIdx, data, packet_header_start, headers,
                   compression, audio_chunks, exc, raisedIn, trace, chunks,
                   chunkSrc, readHi, encoded, converted>>

\* convert_to_mp3: one round of the encoder loop: choose the format, start
\* ffmpeg and write the stream's buffer to it.
Encode ==
    /\ pc = "encode"
    /\ LET format == select_format(compression)
       IN  IF format.tag = "ok"
           THEN /\ encoded' = Append(encoded,
                       [file      |-> fileIdx,
                        stream_id |-> stream_id,
                        format    |-> format.val,
                        bytes     |-> audio_chunks[stream_id]])
                /\ IF stream_id = 0
                   THEN stream_id' = 1 /\ pc' = "encode"
                   ELSE stream_id' = stream_id /\ pc' = "mix"
                /\ UNCHANGED <<exc, raisedIn>>
           ELSE /\ Raise(format.exc, format.in)
                /\ UNCHANGED <<encoded, stream_id>>
    /\ UNCHANGED <<files, fileIdx, data, packet_header_start, headers,
                   compression, audio_chunks, trace, chunks, chunkSrc, readHi,
                   converted>>

\* convert_to_mp3: mix the two encoded streams, log the conversion, remove
\* the temporary files and return to the batch loop.
Mix ==
    /\ pc = "mix"
    /\ converted' = Append(converted, fileIdx)
    /\ pc' = "main"
    /\ UNCHANGED <<files, fileIdx, data, packet_header_start, headers,
                   compression, audio_chunks, stream_id, exc, raisedIn, trace,
                   chunks, chunkSrc, readHi, encoded>>

\* __main__: `except Exception` logs the error and ends the process.
HandleException ==
    /\ pc = "raised"
    /\ pc' = "exited"
    /\ UNCHANGED <<files, fileIdx, data, packet_header_start, headers,
                   compression, audio_chunks, stream_id, exc, raisedIn, trace,
                   chunks, chunkSrc, readHi, encoded, converted>>

Next ==
    \/ NextFile
    \/ Finish
    \/ OpenFile
    \/ ReadHeader
    \/ EmitChunk
    \/ SkipPacket
    \/ Advance
    \/ PrepareOutput
    \/ Encode
    \/ Mix
    \/ HandleException

Spec == Init /\ [][Next]_vars

TruncatedSpec == TruncatedInit /\ [][Next]_vars

ScanSpec == ScanInit /\ [][Next]_vars

TwiceSpec == TwiceInit /\ [][Next]_vars

BatchSpec == BatchInit /\ [][Next]_vars

\* The program is one thread that runs until it exits: a step that can be
\* taken is taken.
FairSpec == Spec /\ WF_vars(Next)


\* ----------------------------------------------------------------- claims
\* The packets on the chain of container d from offset c on: each header
\* that decodes, up to and including the first terminal one.
RECURSIVE Chain(_, _)
Chain(d, c) ==
    LET r == get_packet_header(Slice(d, c, c + 28))
    IN  IF r.tag # "ok" THEN << >>
        ELSE IF r.val.packet_type = 7 THEN <<[at |-> c, hdr |-> r.val]>>
        ELSE <<[at |-> c, hdr |-> r.val]>>
                 \o Chain(d, c + 28 + r.val.packet_size)

Last(q) == q[Len(q)]

PacketEnd(p) == p.at + 28 + p.hdr.packet_size

Malformed(h) == h.packet_size < h.parameters_size

\* Every packet on the chain lies inside d and has packet_size >=
\* parameters_size, and the chain ends with a terminal packet.
WellFormed(d) ==
    LET ch == Chain(d, 0)
    IN  /\ ch # << >>
        /\ Last(ch).hdr.packet_type = 7
        /\ \A i \in 1..Len(ch) : PacketEnd(ch[i]) <= Len(d) /\ ~Malformed(ch[i].hdr)

IsMediaPacket(p) == IsMedia(p.hdr)

MediaPackets(d) == SelectSeq(Chain(d, 0), IsMediaPacket)

\* The chain of d reaches or passes the end of d with no terminal packet.
PassesEnd(d) ==
    LET ch == Chain(d, 0)
    IN  IF ch = << >> THEN Len(d) = 0
        ELSE Last(ch).hdr.packet_type # 7 /\ PacketEnd(Last(ch)) >= Len(d)

\* chunks_generator has read the file being converted into data.
Loaded == fileIdx >= 1 /\ files[fileIdx].readable /\ pc # "open"

\* The generator has stopped, by exhaustion or by an exception.
GeneratorOver == pc \in {"done", "raised"}

\* The bytes of the chunks of q whose stream_id is s, concatenated in order.
RECURSIVE StreamBytes(_, _)
StreamBytes(q, s) ==
    IF q = << >> THEN << >>
    ELSE (IF Head(q).stream_id = s THEN Head(q).bytes ELSE << >>)
             \o StreamBytes(Tail(q), s)

\* The chunks of q of stream s whose compression is not None.
KnownOf(q, s) ==
    SelectSeq(q, LAMBDA c : c.stream_id = s /\ c.compression.tag = "int")

OfStream(q, s) == SelectSeq(q, LAMBDA c : c.stream_id = s)

\* The parameter block of the packet chunk j came from holds a full record
\* whose type_id is 10.
HasMarker(j) ==
    LET p == trace[chunkSrc[j]]
        block == Slice(data, p.at + 28, p.at + 28 + p.hdr.parameters_size)
    IN  \E i \in 0..(Len(block) \div 22) :
            /\ 22 * i + 22 <= Len(block)
            /\ unpack_h(Slice(block, 22 * i, 22 * i + 2)).v = 10

\* The encoder processes started for the file being converted.
EncodedHere == SelectSeq(encoded, LAMBDA e : e.file = fileIdx)

ConvertedHere == \E k \in 1..Len(converted) : converted[k] = fileIdx

\* C1: for a well-formed container the generator ends without an exception
\* having yielded exactly one chunk per media packet of the chain, in packet
\* order, each of packet_size - parameters_size bytes.
C1_OneChunkPerMediaPacket ==
    (WellFormed(data) /\ GeneratorOver) =>
        LET media == MediaPackets(data)
        IN  /\ Len(chunks) = Len(media)
            /\ \A j \in 1..Len(chunks) :
                  /\ trace[chunkSrc[j]] = media[j]
                  /\ Len(chunks[j].bytes) =
                         media[j].hdr.packet_size - media[j].hdr.parameters_size

\* C2: a decoded header with packet_size < parameters_size, media or not, is
\* the last one decoded: the program is about to classify it or has raised,
\* no chunk came from it and the cursor still points at it.
C2_MalformedPacketStops ==
    \A i \in 1..Len(trace) :
        Malformed(trace[i].hdr) =>
            /\ i = Len(trace)
            /\ pc \in {"classify", "raised", "exited"}
            /\ packet_header_start = trace[i].at
            /\ \A j \in 1..Len(chunkSrc) : chunkSrc[j] # i

\* C3: once a header with packet_type = 7 is decoded it is the last header
\* decoded, no chunk comes from it or after it, the loop never scans again
\* and no function of the parser raises, whatever follows the packet.
C3_TerminalHalts ==
    \A i \in 1..Len(trace) :
        trace[i].hdr.packet_type = 7 =>
            /\ i = Len(trace)
            /\ \A j \in 1..Len(chunkSrc) : chunkSrc[j] < i
            /\ pc \notin {"scan", "open"}
            /\ exc # "struct.error"
            /\ pc \in {"classify", "advance"} \/ packet_header_start = PacketEnd(trace[i])

\* C3's case: the generator is done with bytes of the container left over.
C3_Witness ==
    /\ pc = "done"
    /\ Len(chunks) > 0
    /\ packet_header_start < Len(data)

\* C4: when the chain of the container reaches or passes its end with no
\* terminal packet, the generator never ends normally: the file is raised
\* out of with struct.error, nothing is encoded or converted, and nothing is
\* read beyond the container.
C4_UnterminatedIsFatal ==
    (Loaded /\ PassesEnd(data)) =>
        /\ pc \in {"scan", "classify", "advance", "raised", "exited"}
        /\ pc \in {"raised", "exited"} => exc = "struct.error"
        /\ EncodedHere = << >>
        /\ ~ConvertedHere
        /\ readHi <= Len(data)

\* C4's case: a packet declared past the end of the container, then the
\* exception at the header that is not there.
C4_Witness ==
    /\ pc = "raised"
    /\ PassesEnd(data)
    /\ trace # << >>
    /\ packet_header_start > Len(data)
    /\ raisedIn = "get_packet_header"

\* C5: each buffer is the concatenation, in arrival order, of the bytes of
\* the yielded chunks of its stream; chunks of other streams are in neither.
C5_BuffersAreStreamConcatenation ==
    \A s \in {0, 1} : audio_chunks[s] = StreamBytes(chunks, s)

\* C5's case: the pass is over, a chunk of a stream outside {0,1} was
\* yielded among chunks of a retained stream.
C5_Witness ==
    /\ pc = "done"
    /\ \E j \in 1..Len(chunks) : chunks[j].stream_id \notin {0, 1}
    /\ \E s \in {0, 1} : Len(OfStream(chunks, s)) >= 1 /\ audio_chunks[s] # << >>

\* C6: the format of every encoder process of stream s is the table entry
\* of the compression of the last chunk of stream s whose compression was
\* not None.
C6_CodecIsPerStream ==
    \A k \in 1..Len(EncodedHere) :
        LET e == EncodedHere[k]
            known == KnownOf(chunks, e.stream_id)
        IN  (known # << >> /\ Last(known).compression.v \in DOMAIN formats) =>
                e.format = formats[Last(known).compression.v]

\* C7: a chunk from a parameter block without a type_id = 10 record has
\* compression None, and a stream all of whose chunks have compression None
\* is encoded as g729.
C7_NoMarkerMeansG729 ==
    /\ \A j \in 1..Len(chunks) :
          ~HasMarker(j) => chunks[j].compression = None
    /\ \A k \in 1..Len(EncodedHere) :
          LET e == EncodedHere[k]
              mine == OfStream(chunks, e.stream_id)
          IN  (mine # << >> /\ KnownOf(chunks, e.stream_id) = << >>) =>
                  e.format = "g729"

\* C8: a step from the top of the loop with fewer than 28 bytes left at the
\* cursor raises struct.error in get_packet_header; no header is recorded,
\* nothing is classified and the cursor stays.
C8_ShortHeaderRaises ==
    [][(pc = "scan" /\ Len(data) - packet_header_start < 28) =>
          /\ pc' = "raised"
          /\ exc' = "struct.error"
          /\ raisedIn' = "get_packet_header"
          /\ UNCHANGED <<packet_header_start, headers, trace, chunks,
                         audio_chunks>>]_vars

\* C8's case: the exception with 1 to 27 bytes left behind a decoded packet.
C8_Witness ==
    /\ pc = "raised"
    /\ raisedIn = "get_packet_header"
    /\ trace # << >>
    /\ Len(data) - packet_header_start \in 1..27

\* C9: after struct.error, raised by any function of the parser, no encoder
\* process was started for the file and no output was written for it.
C9_NoOutputAfterFatalError ==
    exc = "struct.error" =>
        /\ pc \in {"raised", "exited"}
        /\ EncodedHere = << >>
        /\ ~ConvertedHere

\* C9's case: the run ended on the exception with bytes already buffered.
C9_Witness ==
    /\ pc = "exited"
    /\ exc = "struct.error"
    /\ audio_chunks[0] # << >>
    /\ audio_chunks[1] # << >>

\* C10: a batch run that met struct.error in one file still takes every
\* file of the batch before it ends.
C10_ErrorConfinedToFile ==
    (exc = "struct.error" /\ pc \in {"exited", "finished"}) =>
        fileIdx = Len(files)

\* C11: an encoder process exists for the file only when the generator has
\* decoded the terminal packet and stopped; what each process was given is
\* the whole buffer of its stream, every yielded chunk folded in.
C11_EncodeAfterParse ==
    \A k \in 1..Len(EncodedHere) :
        /\ pc \notin {"open", "scan", "classify", "advance", "done"}
        /\ trace # << >>
        /\ Last(trace).hdr.packet_type = 7
        /\ EncodedHere[k].bytes = StreamBytes(chunks, EncodedHere[k].stream_id)
        /\ EncodedHere[k].bytes = audio_chunks[EncodedHere[k].stream_id]

\* C11's case: both streams were handed to the encoder with two chunks
\* yielded before.
C11_Witness ==
    /\ pc = "mix"
    /\ Len(EncodedHere) = 2
    /\ Len(chunks) >= 2
    /\ EncodedHere[1].bytes # << >>

\* The parameter block of packet p, as chunks_generator slices it.
BlockOf(p) == Slice(data, p.at + 28, p.at + 28 + p.hdr.parameters_size)

FullRecords(b) == Len(b) \div 22

RecordType(b, i) == unpack_h(Slice(b, 22 * i, 22 * i + 2)).v

RecordDataSize(b, i) == unpack_i(Slice(b, 22 * i + 2, 22 * i + 6)).v

RecordPayload(b, i) == Slice(b, 22 * i + 6, 22 * i + 22)

NoFullMarker(b) == \A i \in 0..(FullRecords(b) - 1) : RecordType(b, i) # 10

\* The full record of lowest offset whose type_id is 10.
FirstMarker(b) ==
    CHOOSE i \in 0..(FullRecords(b) - 1) :
        /\ RecordType(b, i) = 10
        /\ \A k \in 0..(i - 1) : RecordType(b, k) # 10

\* Packet i of trace is a media packet whose payload was unpacked, so that
\* get_compression_type has been called on its parameter block.
Scanned(i) ==
    /\ IsMedia(trace[i].hdr)
    /\ i < Len(trace) \/ pc # "classify"
    /\ ~(i = Len(trace) /\ pc \in {"raised", "exited"}
           /\ raisedIn = "chunks_generator")

\* Packet i of trace yielded a chunk whose compression is c.
YieldedWith(i, c) ==
    \E j \in 1..Len(chunks) : chunkSrc[j] = i /\ chunks[j].compression = c

\* The call for packet i of trace raised struct.error in function f.
RaisedAt(i, f) ==
    /\ i = Len(trace)
    /\ pc \in {"raised", "exited"}
    /\ exc = "struct.error"
    /\ raisedIn = f
    /\ \A j \in 1..Len(chunkSrc) : chunkSrc[j] # i

\* C12: a parameter block whose length is not a multiple of 22 and whose
\* full records hold no type_id = 10 record is scanned without an exception
\* and gives compression None.
C12_PartialRecordIgnored ==
    \A i \in 1..Len(trace) :
        (Scanned(i) /\ Len(BlockOf(trace[i])) % 22 # 0
                    /\ NoFullMarker(BlockOf(trace[i]))) =>
            YieldedWith(i, None)

\* C13: for a parameter block of full records with a type_id = 10 record,
\* get_compression_type gives what get_data_value gives for the first such
\* record, its value or its exception, whatever the records after it hold.
C13_FirstMarkerDecides ==
    \A i \in 1..Len(trace) :
        LET b == BlockOf(trace[i])
        IN  (Scanned(i) /\ Len(b) % 22 = 0 /\ ~NoFullMarker(b)) =>
                LET m == FirstMarker(b)
                    r == get_data_value(RecordPayload(b, m), RecordDataSize(b, m))
                IN  IF r.tag = "ok" THEN YieldedWith(i, r.val)
                    ELSE RaisedAt(i, r.in)

\* C13's case: a chunk came from a block whose first compression record is
\* followed by another one with a different code.
C13_Witness ==
    /\ pc = "done"
    /\ \E i \in 1..Len(trace) :
          LET b == BlockOf(trace[i])
          IN  /\ Scanned(i) /\ Len(b) = 44
              /\ RecordType(b, 0) = 10 /\ RecordType(b, 1) = 10
              /\ RecordPayload(b, 0)[1] # RecordPayload(b, 1)[1]
              /\ YieldedWith(i, PyInt(RecordPayload(b, 0)[1]))

\* C15: for a compression record with data_size in 1..16 the chunk's
\* compression is the first payload byte as a signed 8-bit integer.
C15_FirstByteForEveryDataSize ==
    \A i \in 1..Len(trace) :
        LET b == BlockOf(trace[i])
        IN  (Scanned(i) /\ ~NoFullMarker(b)
                        /\ RecordDataSize(b, FirstMarker(b)) \in 1..16) =>
                YieldedWith(i,
                    PyInt(unpack_b(<<RecordPayload(b, FirstMarker(b))[1]>>).v))

\* C14: when the pass ended with no chunk yielded for a stream, the format
\* expression raises nothing and the stream is encoded as g729.
C14_NoChunkDefaultsToG729 ==
    /\ exc # "UnboundLocalError"
    /\ \A k \in 1..Len(EncodedHere) :
          OfStream(chunks, EncodedHere[k].stream_id) = << >> =>
              EncodedHere[k].format = "g729"

C17_HeadersBounded ==
    /\ Len(trace) <= Len(data) \div 28 + 1
    /\ Len(chunks) <= Len(trace)
    /\ \A i \in 2..Len(trace) :
          /\ trace[i].at = PacketEnd(trace[i - 1])
          /\ trace[i].at >= trace[i - 1].at + 28
    /\ pc = "scan" => packet_header_start >= 28 * Len(trace)

\* C17's case: the generator stopped after as many headers as the container
\* has room for, one of them a packet that is not media.
C17_Witness ==
    /\ pc \in {"done", "raised"}
    /\ Len(trace) = 3
    /\ Len(trace) = Len(data) \div 28
    /\ \E i \in 1..Len(trace) : ~IsMedia(trace[i].hdr)

\* C17, as a property of FairSpec: the generator, once started, stops.
SequencerStops == (pc = "scan") ~> (pc \in {"done", "raised"})

\* C18: every chunk is the packet_size - parameters_size bytes of the
\* container that follow the parameter block of its packet, and a media
\* packet whose payload runs past the end of the container yields no chunk
\* but struct.error in chunks_generator.
C18_ChunksAreWholePayloads ==
    /\ \A j \in 1..Len(chunks) :
          LET p     == trace[chunkSrc[j]]
              n     == p.hdr.packet_size - p.hdr.parameters_size
              start == p.at + 28 + p.hdr.parameters_size
          IN  /\ n >= 0
              /\ Len(chunks[j].bytes) = n
              /\ n > 0 => /\ start + n <= Len(data)
                          /\ chunks[j].bytes = SubSeq(data, start + 1, start + n)
    /\ \A i \in 1..Len(trace) :
          (/\ IsMedia(trace[i].hdr)
           /\ i < Len(trace) \/ pc # "classify"
           /\ trace[i].hdr.packet_size > trace[i].hdr.parameters_size
           /\ PacketEnd(trace[i]) > Len(data)) =>
              RaisedAt(i, "chunks_generator")

\* C18's case: the payload of the last media packet is cut short, with part
\* of it still in the container.
C18_Witness ==
    /\ pc = "raised"
    /\ raisedIn = "chunks_generator"
    /\ IsMedia(Last(trace).hdr)
    /\ Last(trace).hdr.packet_size > Last(trace).hdr.parameters_size
    /\ PacketEnd(Last(trace)) > Len(data)
    /\ Last(trace).at + 28 + Last(trace).hdr.parameters_size < Len(data)
    /\ chunks # << >>

\* The encoder processes started for file i.
EncodedOf(i) == SelectSeq(encoded, LAMBDA e : e.file = i)

WasConverted(i) == \E k \in 1..Len(converted) : converted[k] = i

\* C19: when the file being converted has the bytes of a file converted
\* before it in the run, the second conversion does not fail, its buffers at
\* the end of the pass are byte for byte those of the first and every encoder
\* process gets the same stream, format and bytes as in the first.
C19_SecondRunSameOutcome ==
    \A i \in 1..(fileIdx - 1) :
        (files[i] = files[fileIdx] /\ WasConverted(i)) =>
            /\ pc \notin {"raised", "exited"}
            /\ Len(EncodedOf(i)) = 2
            /\ \A k \in 1..Len(EncodedHere) :
                  /\ EncodedHere[k].stream_id = EncodedOf(i)[k].stream_id
                  /\ EncodedHere[k].format = EncodedOf(i)[k].format
                  /\ EncodedHere[k].bytes = EncodedOf(i)[k].bytes
            /\ pc \in {"done", "encode", "mix", "main", "finished"} =>
                  /\ \A k \in 1..2 :
                        audio_chunks[EncodedOf(i)[k].stream_id] =
                            EncodedOf(i)[k].bytes
                  /\ select_format(compression) = Ok(EncodedOf(i)[1].format)

\* C19's case: the same container was converted twice, with bytes in both
\* buffers.
C19_Witness ==
    /\ pc = "finished"
    /\ Len(files) = 2
    /\ files[1] = files[2]
    /\ WasConverted(1) /\ WasConverted(2)
    /\ audio_chunks[0] # << >>
    /\ audio_chunks[1] # << >>

====
